---- MODULE Spec2Model ----
(***************************************************************************)
(* OntotextGraphDB: a labelled-property-graph adapter over a SPARQL        *)
(* endpoint (get_ontotext_graph_db.py).                                    *)
(*                                                                         *)
(* Strings are sequences of ASCII codes, so that prefixing, substring      *)
(* tests (CONTAINS), splitting, lower-casing and percent-encoding are      *)
(* computed character by character, as the code and the endpoint compute   *)
(* them.  The remote triple store is the variable `store`; every adapter   *)
(* method is one action.                                                   *)
(***************************************************************************)
EXTENDS Integers, Sequences, FiniteSets, TLC

(***************************************************************************)
(* Characters and string helpers                                           *)
(***************************************************************************)
\* ASCII codes of the characters the code and the SPARQL grammar single out
Ch == [space |-> 32, bang |-> 33, dquote |-> 34, hash |-> 35, percent |-> 37,
       slash |-> 47, colon |-> 58, lt |-> 60, gt |-> 62, qmark |-> 63,
       at |-> 64, bslash |-> 92, caret |-> 94, underscore |-> 95,
       cr |-> 13, lf |-> 10, n |-> 110, r |-> 114]

IsUpper(c) == c \in 65..90
IsLower(c) == c \in 97..122
IsAlpha(c) == IsUpper(c) \/ IsLower(c)
IsDigit(c) == c \in 48..57
IsHexDigit(c) == IsDigit(c) \/ c \in 65..70 \/ c \in 97..102

\* s[i..] and s[..i]
Drop(s, k) == SubSeq(s, k + 1, Len(s))
Take(s, k) == SubSeq(s, 1, k)

StartsWith(s, pre) == Len(pre) <= Len(s) /\ Take(s, Len(pre)) = pre
EndsWith(s, suf) == Len(suf) <= Len(s) /\ Drop(s, Len(s) - Len(suf)) = suf

\* positions at which sub occurs in s
Occurrences(s, sub) ==
    {i \in 1..(Len(s) - Len(sub) + 1) : SubSeq(s, i, i + Len(sub) - 1) = sub}

\* Python `sub in s`, SPARQL CONTAINS(s, sub)
Contains(s, sub) == Len(sub) = 0 \/ Occurrences(s, sub) # {}

SetMin(S) == CHOOSE x \in S : \A y \in S : x <= y
SetMax(S) == CHOOSE x \in S : \A y \in S : x >= y

\* Python s.split(sep)[-1]: the text after the last occurrence of sep
AfterLast(s, sep) ==
    IF Occurrences(s, sep) = {} THEN s
    ELSE Drop(s, SetMax(Occurrences(s, sep)) + Len(sep) - 1)

\* Python s.split(sep)[1]: the text between the first and the second
\* occurrence of sep (non-overlapping, left to right).  Defined only when
\* sep occurs in s; the callers test HasIndex1 first (IndexError otherwise).
HasIndex1(s, sep) == Occurrences(s, sep) # {}
SplitIndex1(s, sep) ==
    LET first == SetMin(Occurrences(s, sep))
        rest  == Drop(s, first + Len(sep) - 1)
    IN  IF Occurrences(rest, sep) = {} THEN rest
        ELSE Take(rest, SetMin(Occurrences(rest, sep)) - 1)

\* Python str.lower() on ASCII text
Lower(s) == [i \in 1..Len(s) |-> IF IsUpper(s[i]) THEN s[i] + 32 ELSE s[i]]

\* Python s.replace(" ", "_")
SpacesToUnderscores(s) ==
    [i \in 1..Len(s) |-> IF s[i] = Ch.space THEN Ch.underscore ELSE s[i]]

\* Python str.strip(): drop leading and trailing ASCII whitespace
IsWhite(c) == c \in {9, 10, 11, 12, 13, 32}
RECURSIVE LStrip(_)
LStrip(s) == IF s # <<>> /\ IsWhite(s[1]) THEN LStrip(Tail(s)) ELSE s
RECURSIVE RStrip(_)
RStrip(s) ==
    IF s # <<>> /\ IsWhite(s[Len(s)]) THEN RStrip(Take(s, Len(s) - 1)) ELSE s
Strip(s) == RStrip(LStrip(s))

\* concatenation of a sequence of strings
RECURSIVE Concat(_)
Concat(ss) == IF ss = <<>> THEN <<>> ELSE Head(ss) \o Concat(Tail(ss))

\* Python str(n) for a non-negative integer
RECURSIVE Digits(_)
Digits(n) == IF n < 10 THEN <<48 + n>> ELSE Digits(n \div 10) \o <<48 + (n % 10)>>

(***************************************************************************)
(* Namespace prefixes                                                      *)
(***************************************************************************)
\* "http://example.org/"  (default `prefix` of to_uri)
ExampleOrg == <<104,116,116,112,58,47,47,101,120,97,109,112,108,101,46,111,114,103,47>>
\* "urn:node:"
UrnNode == <<117,114,110,58,110,111,100,101,58>>
\* "urn:relationship:"
UrnRelationship == <<117,114,110,58,114,101,108,97,116,105,111,110,115,104,105,112,58>>
\* "urn:property:"
UrnProperty == <<117,114,110,58,112,114,111,112,101,114,116,121,58>>
\* "urn:schema:"
UrnSchema == <<117,114,110,58,115,99,104,101,109,97,58>>
\* "urn:"
Urn == <<117,114,110,58>>

(***************************************************************************)
(* URI codec                                                               *)
(***************************************************************************)
\* uri_to_key raises UnboundLocalError when the text has none of "#", ":",
\* "//" (name is never bound)
UriToKeyDefined(uri) ==
    \/ Contains(uri, <<Ch.hash>>)
    \/ Contains(uri, <<Ch.colon>>)
    \/ Contains(uri, <<Ch.slash, Ch.slash>>)

\* Python s.rstrip("/")
RECURSIVE RStripSlash(_)
RStripSlash(s) ==
    IF s # <<>> /\ s[Len(s)] = Ch.slash THEN RStripSlash(Take(s, Len(s) - 1)) ELSE s

\* uri_to_key: the local name, lower-cased, spaces to underscores, stripped
LocalName(uri) ==
    IF Contains(uri, <<Ch.hash>>) THEN AfterLast(uri, <<Ch.hash>>)
    ELSE IF Contains(uri, <<Ch.colon>>) THEN AfterLast(uri, <<Ch.colon>>)
    ELSE AfterLast(RStripSlash(uri), <<Ch.slash>>)
uri_to_key(uri) == Strip(SpacesToUnderscores(Lower(LocalName(uri))))

\* RFC 3987 character classes (ASCII part)
IsUnreserved(c) == IsAlpha(c) \/ IsDigit(c) \/ c \in {45, 46, 95, 126}
IsSubDelim(c) == c \in {33, 36, 38, 39, 40, 41, 42, 43, 44, 59, 61}
IsSchemeChar(c) == IsAlpha(c) \/ IsDigit(c) \/ c \in {43, 45, 46}

\* every "%" starts a pct-encoded triplet
PctOk(s) ==
    \A i \in 1..Len(s) :
        s[i] = Ch.percent =>
            i + 2 <= Len(s) /\ IsHexDigit(s[i + 1]) /\ IsHexDigit(s[i + 2])

\* ipchar / "/" (path), plus "?" in query and fragment
IsPathChar(c) ==
    IsUnreserved(c) \/ IsSubDelim(c) \/ c \in {Ch.colon, Ch.at, Ch.slash, Ch.percent}

\* position of the first c in s, 0 when there is none; the text before and
\* after position k (all of s before, nothing after, when k = 0)
Index(s, c) ==
    IF \E i \in 1..Len(s) : s[i] = c
    THEN CHOOSE i \in 1..Len(s) : s[i] = c /\ \A j \in 1..(i - 1) : s[j] # c
    ELSE 0
Before(s, k) == IF k = 0 THEN s ELSE Take(s, k - 1)
After(s, k) == IF k = 0 THEN <<>> ELSE Drop(s, k)

\* iuserinfo, ireg-name, port
UserOk(user) ==
    \A i \in 1..Len(user) :
        IsUnreserved(user[i]) \/ IsSubDelim(user[i]) \/ user[i] \in {Ch.colon, Ch.percent}
RegNameOk(name) ==
    \A i \in 1..Len(name) :
        IsUnreserved(name[i]) \/ IsSubDelim(name[i]) \/ name[i] = Ch.percent
PortOk(port) == \A i \in 1..Len(port) : IsDigit(port[i])

\* ihost [":" port], the colon at position c of host
HostPortOk(host, c) == RegNameOk(Before(host, c)) /\ PortOk(After(host, c))

\* iauthority = [iuserinfo "@"] ihost [":" port], the "@" at position k
AuthorityAt(a, k) ==
    IF k = 0 THEN HostPortOk(a, Index(a, Ch.colon))
    ELSE UserOk(Take(a, k - 1))
         /\ HostPortOk(Drop(a, k), Index(Drop(a, k), Ch.colon))
AuthorityOk(a) == AuthorityAt(a, Index(a, Ch.at))

PathOk(path) == \A i \in 1..Len(path) : IsPathChar(path[i])

\* "//" iauthority ipath-abempty, r the text after "//", its first "/" at sl
AuthorityPathOk(r, sl) ==
    IF sl = 0 THEN AuthorityOk(r)
    ELSE AuthorityOk(Take(r, sl - 1)) /\ PathOk(Drop(r, sl - 1))

\* ihier-part of an IRI: "//" iauthority ipath-abempty, or a path
HierOk(h) ==
    IF StartsWith(h, <<Ch.slash, Ch.slash>>)
    THEN AuthorityPathOk(Drop(h, 2), Index(Drop(h, 2), Ch.slash))
    ELSE PathOk(h)

SchemeOk(scheme) ==
    /\ scheme # <<>>
    /\ IsAlpha(scheme[1])
    /\ \A i \in 1..Len(scheme) : IsSchemeChar(scheme[i])

\* iquery and ifragment
QueryOk(q) == \A i \in 1..Len(q) : IsPathChar(q[i]) \/ q[i] = Ch.qmark

\* ihier-part [ "?" iquery ], the "?" at position q
HierQueryOk(nofrag, q) == HierOk(Before(nofrag, q)) /\ QueryOk(After(nofrag, q))

\* ihier-part [ "?" iquery ] [ "#" ifragment ], the "#" at position h
AfterSchemeOk(rest, h) ==
    /\ PctOk(rest)
    /\ HierQueryOk(Before(rest, h), Index(Before(rest, h), Ch.qmark))
    /\ QueryOk(After(rest, h))

\* scheme ":" ..., the ":" at position c
IriAt(s, c) ==
    /\ c > 0
    /\ SchemeOk(Take(s, c - 1))
    /\ AfterSchemeOk(Drop(s, c), Index(Drop(s, c), Ch.hash))

\* is_uri / is_iri: rfc3987.parse(string, rule="IRI") succeeds:
\* scheme ":" ihier-part [ "?" iquery ] [ "#" ifragment ]
is_uri(s) == IriAt(s, Index(s, Ch.colon))

\* to_uri(string, prefix="http://example.org/", suffix)
to_uri(string, suffix) ==
    IF is_uri(string) THEN string ELSE ExampleOrg \o suffix \o string

\* urllib.parse.quote(c): unreserved characters and "/" stay, every other
\* byte becomes "%XX" with upper-case hex digits
HexDigit(d) == IF d < 10 THEN 48 + d ELSE 55 + d
QuoteChar(c) ==
    IF IsAlpha(c) \/ IsDigit(c) \/ c \in {95, 46, 45, 126, Ch.slash}
    THEN <<c>>
    ELSE <<Ch.percent, HexDigit(c \div 16), HexDigit(c % 16)>>

\* to_quoted_uri(uri): quote(uri) (the except branch is for non-strings)
RECURSIVE to_quoted_uri(_)
to_quoted_uri(uri) ==
    IF uri = <<>> THEN <<>> ELSE QuoteChar(Head(uri)) \o to_quoted_uri(Tail(uri))

(***************************************************************************)
(* Property values and literal formatting                                  *)
(***************************************************************************)
\* A Python property value: str, bool, int (non-negative here), float (given
\* by its repr text, which is what str(value) yields) or None.
StrV(s)   == [ty |-> "str",   s |-> s,    n |-> 0, b |-> FALSE]
IntV(n)   == [ty |-> "int",   s |-> <<>>, n |-> n, b |-> FALSE]
BoolV(b)  == [ty |-> "bool",  s |-> <<>>, n |-> 0, b |-> b]
FloatV(r) == [ty |-> "float", s |-> r,    n |-> 0, b |-> FALSE]
NoneV     == [ty |-> "none",  s |-> <<>>, n |-> 0, b |-> FALSE]

\* "true" / "false" / "None"
TrueText  == <<116,114,117,101>>
FalseText == <<102,97,108,115,101>>
NoneText  == <<78,111,110,101>>

\* Python str(value); for a bool, str(value).lower()
PyStr(v) ==
    CASE v.ty = "str"   -> v.s
      [] v.ty = "int"   -> Digits(v.n)
      [] v.ty = "float" -> v.s
      [] v.ty = "bool"  -> IF v.b THEN TrueText ELSE FalseText
      [] v.ty = "none"  -> NoneText

\* "http://www.w3.org/2001/XMLSchema#" and the three datatype local names
XSD        == <<104,116,116,112,58,47,47,119,119,119,46,119,51,46,111,114,103,47,50,48,48,49,47,88,77,76,83,99,104,101,109,97,35>>
XsdBoolean == XSD \o <<98,111,111,108,101,97,110>>
XsdInteger == XSD \o <<105,110,116,101,103,101,114>>
XsdDouble  == XSD \o <<100,111,117,98,108,101>>

\* '"' lex '"^^<' datatype '>'
TypedLiteral(lex, dt) ==
    <<Ch.dquote>> \o lex \o <<Ch.dquote, Ch.caret, Ch.caret, Ch.lt>> \o dt \o <<Ch.gt>>

\* .replace("\\","\\\\").replace('"','\\"').replace("\r","\\r").replace("\n","\\n")
RECURSIVE Escape(_)
Escape(s) ==
    IF s = <<>> THEN <<>>
    ELSE (CASE Head(s) = Ch.bslash -> <<Ch.bslash, Ch.bslash>>
            [] Head(s) = Ch.dquote -> <<Ch.bslash, Ch.dquote>>
            [] Head(s) = Ch.cr     -> <<Ch.bslash, Ch.r>>
            [] Head(s) = Ch.lf     -> <<Ch.bslash, Ch.n>>
            [] OTHER               -> <<Head(s)>>) \o Escape(Tail(s))

TripleQuote == <<Ch.dquote, Ch.dquote, Ch.dquote>>

\* _format_literal(value)
_format_literal(v) ==
    CASE v.ty = "bool"  -> TypedLiteral(PyStr(v), XsdBoolean)
      [] v.ty = "int"   -> TypedLiteral(PyStr(v), XsdInteger)
      [] v.ty = "float" -> TypedLiteral(PyStr(v), XsdDouble)
      [] v.ty = "str" /\ StartsWith(v.s, Urn) -> to_uri(v.s, <<>>)
      [] OTHER -> TripleQuote \o Escape(PyStr(v)) \o TripleQuote

\* serialize_properties leaves str, bool, int, float and None values as they
\* are (UUID and dict values are outside the values modelled here)
serialize_properties(properties) == properties

(***************************************************************************)
(* The SPARQL endpoint: RDF terms, the grammar of what the adapter sends   *)
(***************************************************************************)
\* An RDF term of the store.  k = "iri": v is the IRI.  k = "lit": v is the
\* lexical form and dt the datatype IRI (empty for a plain string).
\* k = "triple": a quoted (RDF-star) triple, v its text << <s> <p> <o> >>.
Iri(v)     == [k |-> "iri",    v |-> v, dt |-> <<>>]
Lit(v, dt) == [k |-> "lit",    v |-> v, dt |-> dt]
Quoted(v)  == [k |-> "triple", v |-> v, dt |-> <<>>]

\* "http://www.w3.org/1999/02/22-rdf-syntax-ns#type", the keyword `a`
RdfType == <<104,116,116,112,58,47,47,119,119,119,46,119,51,46,111,114,103,47,49,57,57,57,47,48,50,47,50,50,45,114,100,102,45,115,121,110,116,97,120,45,110,115,35,116,121,112,101>>

\* SPARQL IRIREF ::= '<' ([^<>"{}|^`\]-[#x00-#x20])* '>'
IriRefChar(c) == c > 32 /\ c \notin {60, 62, 34, 123, 125, 124, 94, 96, 92}
IriRefOk(s) == \A i \in 1..Len(s) : IriRefChar(s[i])

\* the text  << <s> <p> <o> >>  the adapter builds for a reified edge
RelId(s, p, o) ==
    <<60, 60, 32, 60>> \o s \o <<62, 32, 60>> \o p \o <<62, 32, 60>> \o o
        \o <<62, 32, 62, 62>>

\* the endpoint reads a quoted triple: "<< <" iri "> <" iri "> <" iri "> >>"
QuotedOk(text) ==
    /\ StartsWith(text, <<60, 60, 32, 60>>)
    /\ EndsWith(text, <<62, 32, 62, 62>>)
    /\ Len(text) >= 8
    /\ LET mid  == SubSeq(text, 5, Len(text) - 4)
           seps == Occurrences(mid, <<62, 32, 60>>)
       IN  /\ Cardinality(seps) = 2
           /\ \A i \in 1..Len(mid) :
                 \/ IriRefChar(mid[i])
                 \/ \E j \in seps : i \in j..(j + 2)

\* SPARQL ECHAR ::= '\' [tbnrf\"']
EscapeTarget(c) ==
    CASE c = 116 -> 9 [] c = 98 -> 8 [] c = Ch.n -> Ch.lf [] c = Ch.r -> Ch.cr
      [] c = 102 -> 12 [] OTHER -> c
IsEscapable(c) == c \in {116, 98, Ch.n, Ch.r, 102, Ch.bslash, Ch.dquote, 39}

\* the body of a long string literal after its opening """, up to and
\* including the closing """ that must end the text
RECURSIVE LongBody(_)
LongBody(s) ==
    IF s = <<>> THEN [ok |-> FALSE, lex |-> <<>>]
    ELSE IF StartsWith(s, TripleQuote)
    THEN [ok |-> Len(s) = 3, lex |-> <<>>]
    ELSE IF Head(s) = Ch.bslash
    THEN IF Len(s) >= 2 /\ IsEscapable(s[2])
         THEN LET r == LongBody(Drop(s, 2))
              IN  [ok |-> r.ok, lex |-> <<EscapeTarget(s[2])>> \o r.lex]
         ELSE [ok |-> FALSE, lex |-> <<>>]
    ELSE LET r == LongBody(Tail(s))
         IN  [ok |-> r.ok, lex |-> <<Head(s)>> \o r.lex]

\* the endpoint reads a literal: """...""" or "lex"^^<datatype>
ParseLiteral(text) ==
    IF StartsWith(text, TripleQuote)
    THEN LET r == LongBody(Drop(text, 3))
         IN  [ok |-> r.ok, term |-> Lit(r.lex, <<>>)]
    ELSE IF StartsWith(text, <<Ch.dquote>>)
    THEN LET rest == Tail(text)
             qs   == Occurrences(rest, <<Ch.dquote>>)
             lex  == IF qs = {} THEN <<>> ELSE Take(rest, SetMin(qs) - 1)
             tail == IF qs = {} THEN <<>> ELSE Drop(rest, SetMin(qs))
             dt   == IF Len(tail) >= 4 THEN SubSeq(tail, 4, Len(tail) - 1) ELSE <<>>
         IN  [ok |-> /\ qs # {}
                     /\ ~Contains(lex, <<Ch.bslash>>)
                     /\ \/ tail = <<>>
                        \/ /\ StartsWith(tail, <<Ch.caret, Ch.caret, Ch.lt>>)
                           /\ EndsWith(tail, <<Ch.gt>>)
                           /\ Len(tail) >= 4
                           /\ IriRefOk(dt),
              term |-> Lit(lex, dt)]
    ELSE [ok |-> FALSE, term |-> Lit(<<>>, <<>>)]

\* One statement of an INSERT DATA block as the adapter writes it.  Each
\* position is either bracketed by the adapter, "<text>", or written as is.
Bracketed(text) == [form |-> "iriref", text |-> text]
Verbatim(text)  == [form |-> "raw",    text |-> text]
Statement(s, p, o) == [s |-> s, p |-> p, o |-> o]

\* the endpoint parses one statement (ok = FALSE: malformed update)
ParseStatement(st) ==
    LET sOk == IF st.s.form = "iriref" THEN IriRefOk(st.s.text)
               ELSE QuotedOk(st.s.text)
        pOk == IF st.p.form = "iriref" THEN IriRefOk(st.p.text)
               ELSE st.p.text = <<97>>
        lit == ParseLiteral(st.o.text)
        oOk == IF st.o.form = "iriref" THEN IriRefOk(st.o.text) ELSE lit.ok
    IN  [ok |-> sOk /\ pOk /\ oOk,
         triple |->
            [s |-> IF st.s.form = "iriref" THEN Iri(st.s.text)
                   ELSE Quoted(st.s.text),
             p |-> IF st.p.form = "iriref" THEN st.p.text ELSE RdfType,
             o |-> IF st.o.form = "iriref" THEN Iri(st.o.text) ELSE lit.term]]

(***************************************************************************)
(* Query builder                                                           *)
(***************************************************************************)
\* one iteration of _construct_insert_query on the tuple (subject,
\* predicate, obj): the statement appended to the INSERT DATA block
InsertStatement(subject, predicate, obj) ==
    IF predicate = <<97>>
    THEN Statement(Bracketed(to_uri(subject, UrnNode)), Verbatim(<<97>>),
                   Bracketed(to_uri(obj, UrnNode)))
    ELSE IF StartsWith(subject, <<60, 60>>)
    THEN Statement(Verbatim(subject), Bracketed(to_uri(predicate, UrnRelationship)),
                   Verbatim(obj))
    ELSE IF StartsWith(obj, Urn) \/ is_uri(obj)
    THEN Statement(Bracketed(to_uri(subject, UrnNode)),
                   Bracketed(to_uri(predicate, UrnRelationship)),
                   Bracketed(to_uri(obj, UrnNode)))
    ELSE Statement(Bracketed(to_uri(subject, UrnNode)),
                   Bracketed(to_uri(predicate, UrnProperty)),
                   Verbatim(obj))

\* _construct_insert_query(triples): the statements of the block, in order
_construct_insert_query(triples) ==
    [i \in 1..Len(triples) |->
        InsertStatement(triples[i][1], triples[i][2], triples[i][3])]

\* the update endpoint executes INSERT DATA: a malformed block is refused
\* (non-success status), a well-formed one adds all its triples
ParseInsert(stmts) == [i \in 1..Len(stmts) |-> ParseStatement(stmts[i])]
InsertOk(parsed) == \A i \in 1..Len(parsed) : parsed[i].ok
InsertedTriples(parsed) == {parsed[i].triple : i \in 1..Len(parsed)}

(***************************************************************************)
(* The store and what the endpoint answers                                 *)
(***************************************************************************)
Triple(s, p, o) == [s |-> s, p |-> p, o |-> o]

IsIri(t) == t.k = "iri"

\* an orders of the statements of the store: the sequence in which the
\* endpoint enumerates them when it answers one request
Orders(S) ==
    {f \in [1..Cardinality(S) -> S] : \A i, j \in 1..Cardinality(S) : f[i] = f[j] => i = j}

\* "urn:rdf4j:triple:"
Rdf4jTriple == <<117,114,110,58,114,100,102,52,106,58,116,114,105,112,108,101,58>>

\* In the standard SPARQL JSON results GraphDB names a quoted triple by an
\* IRI: "urn:rdf4j:triple:" followed by an injective encoding of the triple
\* into unreserved characters (URL-safe Base64 there, two hexadecimal digits
\* per character here).
EncodeOpaque(text) ==
    [i \in 1..(2 * Len(text)) |->
        IF i % 2 = 1 THEN HexDigit(text[(i + 1) \div 2] \div 16)
        ELSE HexDigit(text[i \div 2] % 16)]

\* the "value" field of a term in the JSON results
JsonValue(t) == IF t.k = "triple" THEN Rdf4jTriple \o EncodeOpaque(t.v) ELSE t.v

\* one row ?s ?p ?o of the JSON results
Binding(t) == [s |-> JsonValue(t.s), p |-> t.p, o |-> JsonValue(t.o)]

\* f"<http://example.org/urn:node:{id}>", f"<http://example.org/urn:relationship:{name}>"
NodeUri(id) == ExampleOrg \o UrnNode \o id
RelUri(name) == ExampleOrg \o UrnRelationship \o name
SchemaUri(name) == ExampleOrg \o UrnSchema \o name

\* a Python string written between double quotes in a SPARQL query:
\* STRING_LITERAL2 ::= '"' ( ([^"\\\n\r]) | ECHAR )* '"'
StringLiteralOk(s) ==
    \A i \in 1..Len(s) : s[i] \notin {Ch.dquote, Ch.bslash, Ch.cr, Ch.lf}

\* Python dict as a function; d[k] = v
EmptyDict == <<>>
DictPut(d, k, v) == [x \in (DOMAIN d) \cup {k} |-> IF x = k THEN v ELSE d[x]]

\* what a method hands back: how it ended and, when it returned, its value
Returned(v) == [outcome |-> "ok", value |-> v]
\* the method returned None
ReturnedNone == [outcome |-> "ok", value |-> <<>>, none |-> TRUE]
IsNone(r) == "none" \in DOMAIN r
Raised(e)   == [outcome |-> e, value |-> <<>>]

\* the DELETE ... WHERE of delete_node / delete_nodes: every statement whose
\* subject, or whose object, is an IRI that CONTAINS one of the ids
DeleteMatches(t, node_ids) ==
    \E nid \in node_ids :
        \/ IsIri(t.s) /\ Contains(t.s.v, nid)
        \/ IsIri(t.o) /\ Contains(t.o.v, nid)

StoreAfterDelete(S, node_ids) == {t \in S : ~DeleteMatches(t, node_ids)}

(***************************************************************************)
(* Read operations: the value computed from the endpoint's answer.         *)
(* sigma is the order in which the endpoint enumerates the store.          *)
(***************************************************************************)
\* has_edge: ASK for the triple built from the percent-encoded arguments
has_edge(S, source_id, target_id, relationship_name) ==
    Triple(Iri(NodeUri(to_quoted_uri(source_id))),
           RelUri(to_quoted_uri(relationship_name)),
           Iri(NodeUri(to_quoted_uri(target_id)))) \in S

\* the loop of get_node over the bindings ?p ?o
RECURSIVE NodeProperties(_, _)
NodeProperties(rows, properties) ==
    IF rows = <<>> THEN properties
    ELSE NodeProperties(Tail(rows),
            DictPut(properties, SplitIndex1(Head(rows).p, UrnProperty), Head(rows).o))

\* get_node(node_id): None when no statement matches; IndexError when a
\* matching statement's predicate has no "urn:property:" in it
get_node(sigma, node_id) ==
    LET Match(t) == IsIri(t.s) /\ Contains(t.s.v, node_id)
        hit  == SelectSeq(sigma, Match)
        rows == [i \in 1..Len(hit) |-> Binding(hit[i])]
    IN  IF ~StringLiteralOk(node_id) THEN Raised("QueryBadFormed")
        ELSE IF rows = <<>> THEN ReturnedNone
        ELSE IF \E i \in 1..Len(rows) : ~HasIndex1(rows[i].p, UrnProperty)
        THEN Raised("IndexError")
        ELSE Returned(NodeProperties(rows, EmptyDict))

\* the loop of get_relation_properties over the bindings ?property ?value
RECURSIVE RelationProperties(_, _)
RelationProperties(rows, properties) ==
    IF rows = <<>> THEN properties
    ELSE RelationProperties(Tail(rows),
            DictPut(properties, uri_to_key(Head(rows).p), Head(rows).o))

\* get_relation_properties(rel_id): the statements whose subject is the
\* quoted triple rel_id; any exception is swallowed and {} returned
get_relation_properties(sigma, rel_id) ==
    LET Match(t) == t.s = Quoted(rel_id)
        hit  == SelectSeq(sigma, Match)
        rows == [i \in 1..Len(hit) |-> Binding(hit[i])]
    IN  IF ~QuotedOk(rel_id) \/ \E i \in 1..Len(rows) : ~UriToKeyDefined(rows[i].p)
        THEN EmptyDict
        ELSE RelationProperties(rows, EmptyDict)

\* the ordered dict `nodes` of get_graph_data: a sequence of [id, props]
NodeIndex(nodes, id) == {i \in 1..Len(nodes) : nodes[i].id = id}
NodesEnsure(nodes, id) ==
    IF NodeIndex(nodes, id) # {} THEN nodes
    ELSE Append(nodes, [id |-> id, props |-> EmptyDict])
NodesPut(nodes, id, k, v) ==
    [i \in 1..Len(nodes) |->
        IF nodes[i].id = id
        THEN [id |-> id, props |-> DictPut(nodes[i].props, k, v)]
        ELSE nodes[i]]

\* one iteration of the loop of get_graph_data (lines 496-540) on the
\* binding b; g = [nodes, edges, properties]
GraphDataStep(sigma, g, b) ==
    IF ~(Contains(b.s, UrnNode) \/ is_uri(b.s) \/ StartsWith(b.s, <<Ch.colon>>))
    THEN g
    ELSE
      LET node_id == uri_to_key(b.s)
          nodes1  == NodesEnsure(g.nodes, node_id)
      IN  IF \/ Contains(b.p, UrnProperty)
             \/ ~is_uri(b.o)
             \/ b.p \in g.properties
          THEN [nodes |-> NodesPut(nodes1, node_id, uri_to_key(b.p), b.o),
                edges |-> g.edges,
                properties |-> g.properties \cup {b.p}]
          ELSE
            LET rel_name    == uri_to_key(b.p)
                target_id   == IF Contains(b.o, UrnNode)
                               THEN SplitIndex1(b.o, UrnNode)
                               ELSE uri_to_key(b.o)
                node_id_obj == uri_to_key(b.o)
                rel_id      == RelId(b.s, b.p, b.o)
            IN  [nodes |-> NodesEnsure(nodes1, node_id_obj),
                 edges |-> Append(g.edges,
                             <<node_id, target_id, rel_name,
                               get_relation_properties(sigma, rel_id)>>),
                 properties |-> g.properties]

RECURSIVE GraphDataLoop(_, _, _)
GraphDataLoop(sigma, g, rows) ==
    IF rows = <<>> THEN g
    ELSE GraphDataLoop(sigma, GraphDataStep(sigma, g, Head(rows)), Tail(rows))

\* get_graph_data(): SELECT DISTINCT ?s ?p ?o over the whole store, then
\* (node_list, edges)
get_graph_data(sigma) ==
    LET rows == [i \in 1..Len(sigma) |-> Binding(sigma[i])]
        g    == GraphDataLoop(sigma,
                    [nodes |-> <<>>, edges |-> <<>>, properties |-> {}], rows)
    IN  Returned([nodes |-> g.nodes, edges |-> g.edges])

\* the VALUES row has_edges writes for one edge of its list
ValuesClause(edge) ==
    LET source_id == to_quoted_uri(edge[1])
        target_id == to_quoted_uri(edge[2])
        relationship_name == to_quoted_uri(edge[3])
    IN  IF relationship_name = <<97>>
        THEN Triple(Iri(NodeUri(source_id)), RdfType, Iri(SchemaUri(target_id)))
        ELSE Triple(Iri(NodeUri(source_id)), RelUri(relationship_name),
                    Iri(NodeUri(target_id)))

\* next((edge for edge in edges if ... ), None): the first edge of the list
\* with these three ids, 0 when there is none
OriginalEdge(edges, source_id, target_id, relationship_name) ==
    LET hits == {i \in 1..Len(edges) :
                    /\ Len(edges[i]) > 2
                    /\ edges[i][1] = source_id
                    /\ edges[i][2] = target_id
                    /\ edges[i][3] = relationship_name}
    IN  IF hits = {} THEN 0 ELSE SetMin(hits)

RECURSIVE ExistingEdges(_, _, _)
ExistingEdges(edges, rows, existing_edges) ==
    IF rows = <<>> THEN existing_edges
    ELSE LET r == Head(rows)
             k == OriginalEdge(edges, SplitIndex1(r.s, UrnNode),
                               SplitIndex1(r.o, UrnNode),
                               SplitIndex1(r.p, UrnRelationship))
         IN  ExistingEdges(edges, Tail(rows),
                 IF k = 0 THEN existing_edges ELSE Append(existing_edges, edges[k]))

\* the rows of VALUES (...) { clauses } joined with ?source ?relationship ?target
RECURSIVE ValuesJoin(_, _)
ValuesJoin(sigma, clauses) ==
    IF sigma = <<>> THEN <<>>
    ELSE LET Same(c) == c = Head(sigma)
             n == Len(SelectSeq(clauses, Same))
         IN  [i \in 1..n |-> Binding(Head(sigma))] \o ValuesJoin(Tail(sigma), clauses)

\* has_edges(edges)
has_edges(sigma, edges) ==
    IF edges = <<>> THEN Returned(<<>>)
    ELSE
      LET clauses == [i \in 1..Len(edges) |-> ValuesClause(edges[i])]
          rows    == ValuesJoin(sigma, clauses)
      IN  IF \E i \in 1..Len(rows) :
                \/ ~HasIndex1(rows[i].s, UrnNode)
                \/ ~HasIndex1(rows[i].o, UrnNode)
                \/ ~HasIndex1(rows[i].p, UrnRelationship)
          THEN Raised("IndexError")
          ELSE Returned(ExistingEdges(edges, rows, <<>>))

\* the dict node_id_map of get_nodeset_subgraph, with next_node_id = its size
MapId(node_id_map, str_id) ==
    IF str_id \in DOMAIN node_id_map THEN node_id_map
    ELSE DictPut(node_id_map, str_id, Cardinality(DOMAIN node_id_map))

\* one iteration of the loop of get_nodeset_subgraph (lines 723-749);
\* g = [nodes, edges, node_id_map], nodes a sequence of [id, props]
SubgraphStep(g, b) ==
    IF ~StartsWith(b.s, UrnNode) THEN g
    ELSE
      LET str_node_id == SplitIndex1(b.s, UrnNode)
          map1        == MapId(g.node_id_map, str_node_id)
          int_node_id == map1[str_node_id]
          nodes1      == NodesEnsure(g.nodes, int_node_id)
      IN  IF StartsWith(b.p, UrnProperty)
          THEN [nodes |-> NodesPut(nodes1, int_node_id,
                                   SplitIndex1(b.p, UrnProperty), b.o),
                edges |-> g.edges, node_id_map |-> map1]
          ELSE IF StartsWith(b.p, UrnRelationship) /\ StartsWith(b.o, UrnNode)
          THEN LET str_target_id == SplitIndex1(b.o, UrnNode)
                   map2 == MapId(map1, str_target_id)
               IN  [nodes |-> nodes1,
                    edges |-> Append(g.edges,
                                <<int_node_id, map2[str_target_id],
                                  SplitIndex1(b.p, UrnRelationship), EmptyDict>>),
                    node_id_map |-> map2]
          ELSE [nodes |-> nodes1, edges |-> g.edges, node_id_map |-> map1]

RECURSIVE SubgraphLoop(_, _)
SubgraphLoop(g, rows) ==
    IF rows = <<>> THEN g ELSE SubgraphLoop(SubgraphStep(g, Head(rows)), Tail(rows))

\* get_nodeset_subgraph(node_type, node_name).  The query is a CONSTRUCT:
\* `bindings` tells whether the converted answer has ["results"]["bindings"]
\* (the statements whose subject is in the VALUES list) or is an RDF graph
\* object, on which the subscript raises.
get_nodeset_subgraph(sigma, node_name, bindings) ==
    LET InValues(t) == \E i \in 1..Len(node_name) : t.s = Iri(NodeUri(node_name[i]))
        hit  == SelectSeq(sigma, InValues)
        rows == [i \in 1..Len(hit) |-> Binding(hit[i])]
        g    == SubgraphLoop([nodes |-> <<>>, edges |-> <<>>,
                              node_id_map |-> EmptyDict], rows)
    IN  IF \E i \in 1..Len(node_name) : ~IriRefOk(NodeUri(node_name[i]))
        THEN Raised("QueryBadFormed")
        ELSE IF ~bindings THEN Raised("TypeError")
        ELSE Returned([nodes |-> g.nodes, edges |-> g.edges])

\* the dict `neighbors` of get_neighbors, in first-seen order
RECURSIVE NeighborsLoop(_, _)
NeighborsLoop(neighbors, rows) ==
    IF rows = <<>> THEN neighbors
    ELSE LET b  == Head(rows)
             id == SplitIndex1(b.s, UrnNode)
             n1 == NodesEnsure(neighbors, id)
         IN  NeighborsLoop(
                 IF StartsWith(b.p, UrnProperty)
                 THEN NodesPut(n1, id, SplitIndex1(b.p, UrnProperty), b.o)
                 ELSE n1,
                 Tail(rows))

\* [properties for properties in d.values() if properties]
NonEmptyValues(nodes) ==
    LET Filled(n) == n.props # EmptyDict
        kept == SelectSeq(nodes, Filled)
    IN  [i \in 1..Len(kept) |-> kept[i].props]

\* get_neighbors(node_id): the statements of every IRI joined to the node
\* by a statement in either direction
get_neighbors(sigma, node_id) ==
    LET me == Iri(NodeUri(node_id))
        S  == {sigma[i] : i \in 1..Len(sigma)}
        neighbor == {t.o : t \in {u \in S : u.s = me /\ IsIri(u.o)}}
                      \cup {t.s : t \in {u \in S : u.o = me /\ IsIri(u.s)}}
        OfNeighbor(t) == t.s \in neighbor
        hit  == SelectSeq(sigma, OfNeighbor)
        rows == [i \in 1..Len(hit) |-> Binding(hit[i])]
    IN  IF ~IriRefOk(NodeUri(node_id)) THEN Raised("QueryBadFormed")
        ELSE IF \E i \in 1..Len(rows) : ~HasIndex1(rows[i].s, UrnNode)
        THEN Raised("IndexError")
        ELSE Returned(NonEmptyValues(NeighborsLoop(<<>>, rows)))

\* the rows of get_connections: each relationship statement that has the
\* node as source (first UNION branch) or as target (second), joined with
\* every statement of its source and every statement of its target
ConnectionRows(sigma, node_id) ==
    LET me == Iri(NodeUri(node_id))
        IsRel(t) == Contains(t.p, UrnRelationship)
        Out(t) == t.s = me /\ IsIri(t.o) /\ IsRel(t)
        In(t)  == t.o = me /\ IsIri(t.s) /\ IsRel(t)
        found  == SelectSeq(sigma, Out) \o SelectSeq(sigma, In)
        Joined(e) ==
            LET OfSource(t) == t.s = e.s
                OfTarget(t) == t.s = e.o
                sp == SelectSeq(sigma, OfSource)
                tp == SelectSeq(sigma, OfTarget)
            IN  Concat([i \in 1..Len(sp) |->
                          [j \in 1..Len(tp) |->
                              [source |-> e.s.v, relationship |-> e.p,
                               target |-> e.o.v,
                               source_p |-> sp[i].p, source_o |-> JsonValue(sp[i].o),
                               target_p |-> tp[j].p, target_o |-> JsonValue(tp[j].o)]]])
    IN  Concat([i \in 1..Len(found) |-> Joined(found[i])])

\* the loop of get_connections (lines 781-808); c = [nodes_map, keys]
ConnectionStep(c, r) ==
    LET source_id == SplitIndex1(r.source, UrnNode)
        target_id == SplitIndex1(r.target, UrnNode)
        m0 == IF source_id \in DOMAIN c.nodes_map THEN c.nodes_map
              ELSE DictPut(c.nodes_map, source_id, EmptyDict)
        m1 == IF target_id \in DOMAIN m0 THEN m0
              ELSE DictPut(m0, target_id, EmptyDict)
        m2 == IF StartsWith(r.source_p, UrnProperty)
              THEN DictPut(m1, source_id,
                       DictPut(m1[source_id],
                               SplitIndex1(r.source_p, UrnProperty), r.source_o))
              ELSE m1
        m3 == IF StartsWith(r.target_p, UrnProperty)
              THEN DictPut(m2, target_id,
                       DictPut(m2[target_id],
                               SplitIndex1(r.target_p, UrnProperty), r.target_o))
              ELSE m2
        key == <<source_id, target_id, r.relationship>>
        seen == \E i \in 1..Len(c.keys) : c.keys[i] = key
    IN  [nodes_map |-> m3, keys |-> IF seen THEN c.keys ELSE Append(c.keys, key)]

RECURSIVE ConnectionLoop(_, _)
ConnectionLoop(c, rows) ==
    IF rows = <<>> THEN c
    ELSE ConnectionLoop(ConnectionStep(c, Head(rows)), Tail(rows))

\* get_connections(node_id): (source_node, {"relationship": name},
\* target_node) for each connection whose two property maps are non-empty
get_connections(sigma, node_id) ==
    LET rows == ConnectionRows(sigma, node_id)
        c    == ConnectionLoop([nodes_map |-> EmptyDict, keys |-> <<>>], rows)
        Both(k) == c.nodes_map[k[1]] # EmptyDict /\ c.nodes_map[k[2]] # EmptyDict
        kept == SelectSeq(c.keys, Both)
    IN  IF ~IriRefOk(NodeUri(node_id)) THEN Raised("QueryBadFormed")
        ELSE IF \E i \in 1..Len(rows) :
                   \/ ~HasIndex1(rows[i].source, UrnNode)
                   \/ ~HasIndex1(rows[i].target, UrnNode)
                   \/ ~HasIndex1(rows[i].relationship, UrnRelationship)
        THEN Raised("IndexError")
        ELSE Returned([i \in 1..Len(kept) |->
                 [source |-> c.nodes_map[kept[i][1]],
                  relationship |-> SplitIndex1(kept[i][3], UrnRelationship),
                  target |-> c.nodes_map[kept[i][2]]]])

\* the characters re.escape puts a backslash before:
\* ()[]{}?*+-|^$\.&~# and white space
ReSpecial ==
    {40, 41, 91, 93, 123, 125, 63, 42, 43, 45, 124, 94, 36, 92, 46, 38, 126,
     35, 32, 9, 10, 13, 11, 12}

\* REGEX(STR(?node), "{regex_str}"), regex_str the re.escape'd ids joined by
\* "|": a backslash that re.escape wrote is no escape sequence of a SPARQL
\* string (or, before a backslash, leaves a dangling one in the pattern), and
\* a double quote ends the string early
RegexOk(node_ids) ==
    \A i \in 1..Len(node_ids) : \A j \in 1..Len(node_ids[i]) :
        node_ids[i][j] \notin ReSpecial \cup {Ch.dquote}

\* nodes = {node_id: ... for node_id in node_ids}, every value still {}
RECURSIVE NodesFromIds(_, _)
NodesFromIds(node_ids, nodes) ==
    IF node_ids = <<>> THEN nodes
    ELSE NodesFromIds(Tail(node_ids), NodesEnsure(nodes, Head(node_ids)))

\* nodes[node_id][key] = value; KeyError when node_id is no key of nodes
NodesSet(g, node_id, key, value) ==
    IF NodeIndex(g.nodes, node_id) = {} THEN [g EXCEPT !.raised = "KeyError"]
    ELSE [g EXCEPT !.nodes = NodesPut(g.nodes, node_id, key, value)]

\* one iteration of the loop of get_nodes (lines 352-356); g = [raised, nodes]
GetNodesStep(g, b) ==
    IF ~HasIndex1(b.s, UrnNode) \/ ~HasIndex1(b.p, UrnProperty)
    THEN [g EXCEPT !.raised = "IndexError"]
    ELSE NodesSet(g, SplitIndex1(b.s, UrnNode), SplitIndex1(b.p, UrnProperty), b.o)

RECURSIVE GetNodesLoop(_, _)
GetNodesLoop(g, rows) ==
    IF rows = <<>> \/ g.raised # "" THEN g
    ELSE GetNodesLoop(GetNodesStep(g, Head(rows)), Tail(rows))

\* get_nodes(node_ids): the statements of every IRI subject that one of the
\* ids occurs in
get_nodes(sigma, node_ids) ==
    IF node_ids = <<>> THEN Returned(<<>>)
    ELSE IF ~RegexOk(node_ids) THEN Raised("QueryBadFormed")
    ELSE
      LET Match(t) ==
              IsIri(t.s) /\ \E i \in 1..Len(node_ids) : Contains(t.s.v, node_ids[i])
          hit  == SelectSeq(sigma, Match)
          rows == [i \in 1..Len(hit) |-> Binding(hit[i])]
          g    == GetNodesLoop([raised |-> "", nodes |-> NodesFromIds(node_ids, <<>>)],
                               rows)
      IN  IF g.raised # "" THEN Raised(g.raised)
          ELSE Returned(NonEmptyValues(g.nodes))

\* "id", "type", "1999/02/22-rdf-syntax-ns#type"
IdKey == <<105, 100>>
TypeKey == <<116, 121, 112, 101>>
RdfTypeSuffix == <<49,57,57,57,47,48,50,47,50,50,45,114,100,102,45,115,121,110,116,97,120,45,110,115,35,116,121,112,101>>

\* one iteration of the loop of extract_nodes (lines 870-882)
ExtractNodesStep(g, b) ==
    IF ~HasIndex1(b.s, UrnNode) THEN [g EXCEPT !.raised = "IndexError"]
    ELSE IF Contains(b.p, UrnProperty)
    THEN NodesSet(g, SplitIndex1(b.s, UrnNode), SplitIndex1(b.p, UrnProperty), b.o)
    ELSE IF EndsWith(b.p, RdfTypeSuffix) /\ Contains(b.o, UrnSchema)
    THEN NodesSet(g, SplitIndex1(b.s, UrnNode), TypeKey, SplitIndex1(b.o, UrnSchema))
    ELSE g

RECURSIVE ExtractNodesLoop(_, _)
ExtractNodesLoop(g, rows) ==
    IF rows = <<>> \/ g.raised # "" THEN g
    ELSE ExtractNodesLoop(ExtractNodesStep(g, Head(rows)), Tail(rows))

\* extract_nodes(node_ids): the statements whose subject is one of the
\* VALUES, the node IRIs of the percent-encoded ids (a row per statement;
\* an id given twice repeats rows, which assigns the same entries again)
extract_nodes(sigma, node_ids) ==
    IF node_ids = <<>> THEN Returned(<<>>)
    ELSE
      LET Match(t) ==
              \E i \in 1..Len(node_ids) :
                  t.s = Iri(NodeUri(to_quoted_uri(node_ids[i])))
          hit   == SelectSeq(sigma, Match)
          rows  == [i \in 1..Len(hit) |-> Binding(hit[i])]
          empty == NodesFromIds(node_ids, <<>>)
          nodes == [i \in 1..Len(empty) |->
                       [id |-> empty[i].id,
                        props |-> DictPut(EmptyDict, IdKey, empty[i].id)]]
          g     == ExtractNodesLoop([raised |-> "", nodes |-> nodes], rows)
          More(n) == Cardinality(DOMAIN n.props) > 1
          kept  == SelectSeq(g.nodes, More)
      IN  IF g.raised # "" THEN Raised(g.raised)
          ELSE Returned([i \in 1..Len(kept) |-> kept[i].props])


\* int(text) of a decimal numeral
RECURSIVE int(_)
int(text) ==
    IF text = <<>> THEN 0
    ELSE 10 * int(SubSeq(text, 1, Len(text) - 1)) + (text[Len(text)] - 48)

\* <http://example.org/urn:schema:node>
SchemaNode == Iri(SchemaUri(<<110, 111, 100, 101>>))

\* get_graph_metrics(): two COUNT queries, each answered with one row that
\* holds the count as a numeral.  node_count counts the subjects that have
\* rdf:type urn:schema:node, edge_count the statements whose predicate has
\* "urn:relationship:" in it.
get_graph_metrics(S) ==
    LET typed == {t.s : t \in {u \in S : u.p = RdfType /\ u.o = SchemaNode}}
        rels  == {t \in S : Contains(t.p, UrnRelationship)}
    IN  Returned([node_count |-> int(Digits(Cardinality(typed))),
                  edge_count |-> int(Digits(Cardinality(rels)))])

(***************************************************************************)
(* Inputs.  Arguments are named by TLA+ strings; Text gives the characters *)
(* of a name and Props the property map (a Python dict, in insertion       *)
(* order) a name stands for.                                               *)
(***************************************************************************)
Text ==
    ("1" :> <<49>>) @@
    ("2" :> <<50>>) @@
    ("a" :> <<97>>) @@
    ("alpha" :> <<97,108,112,104,97>>) @@
    ("x:1" :> <<120,58,49>>) @@
    ("!" :> <<33>>) @@
    ("%21" :> <<37,50,49>>) @@
    ("A" :> <<65>>) @@
    ("a b" :> <<97,32,98>>) @@
    ("knows" :> <<107,110,111,119,115>>) @@
    ("lives in" :> <<108,105,118,101,115,32,105,110>>) @@
    ("since" :> <<115,105,110,99,101>>) @@
    ("Since" :> <<83,105,110,99,101>>) @@
    ("name" :> <<110,97,109,101>>) @@
    ("Alice" :> <<65,108,105,99,101>>) @@
    ("Bob" :> <<66,111,98>>)

Props ==
    ("{}" :> <<>>) @@
    ("{since: 2020}" :> << <<"since", IntV(2020)>> >>) @@
    ("{knows: 2020}" :> << <<"knows", IntV(2020)>> >>) @@
    ("{Since: 2020}" :> << <<"Since", IntV(2020)>> >>) @@
    ("{name: Alice}" :> << <<"name", StrV(Text["Alice"])>> >>) @@
    ("{name: Bob}" :> << <<"name", StrV(Text["Bob"])>> >>) @@
    ("{x:1: Bob}" :> << <<"x:1", StrV(Text["Bob"])>> >>)

\* the Python dict a property-map name stands for, keys as characters
PropsOf(pname) ==
    [i \in 1..Len(Props[pname]) |-> <<Text[Props[pname][i][1]], Props[pname][i][2]>>]

\* the largest number of statements the store is let to hold
MaxTriples == 3
\* the longest list handed to a method that takes a list
MaxBatch == 2

\* The graphs exercised: node ids, the (source, target) pairs edges are
\* drawn from, relationship names, edge and node property maps, and the
\* property maps of the edge tuples given to has_edges ("-" is a 3-tuple,
\* without a property map).
Fixtures ==
    { [ids |-> {"1", "2"}, pairs |-> {<<"1", "2">>}, rels |-> {"knows"},
       eprops |-> {"{}", "{since: 2020}"},
       nprops |-> {"{name: Alice}", "{name: Bob}"}, hprops |-> {"-"}],
      [ids |-> {"a", "alpha"}, pairs |-> {<<"alpha", "alpha">>, <<"a", "alpha">>},
       rels |-> {"knows"},
       eprops |-> {"{}"}, nprops |-> {"{name: Alice}"}, hprops |-> {"-"}],
      [ids |-> {"x:1", "1"}, pairs |-> {<<"x:1", "1">>, <<"1", "x:1">>},
       rels |-> {"knows"},
       eprops |-> {"{}"}, nprops |-> {"{name: Alice}"}, hprops |-> {"-"}],
      [ids |-> {"!", "%21"}, pairs |-> {<<"!", "!">>, <<"%21", "%21">>},
       rels |-> {"knows"},
       eprops |-> {"{}"}, nprops |-> {"{name: Alice}"}, hprops |-> {"-"}],
      [ids |-> {"A", "a"}, pairs |-> {<<"A", "a">>, <<"a", "A">>},
       rels |-> {"knows"},
       eprops |-> {"{}"}, nprops |-> {"{name: Alice}"}, hprops |-> {"-"}],
      [ids |-> {"1", "a b"}, pairs |-> {<<"1", "1">>, <<"1", "a b">>},
       rels |-> {"a", "lives in"},
       eprops |-> {"{}"}, nprops |-> {"{name: Alice}"}, hprops |-> {"{}"}],
      [ids |-> {"1", "2"}, pairs |-> {<<"1", "2">>}, rels |-> {"knows"},
       eprops |-> {"{knows: 2020}", "{Since: 2020}"}, nprops |-> {"{}"},
       hprops |-> {"{knows: 2020}", "{Since: 2020}"}],
      [ids |-> {"1", "2"}, pairs |-> {<<"1", "2">>}, rels |-> {"x:1"},
       eprops |-> {"{}"}, nprops |-> {"{x:1: Bob}"}, hprops |-> {"-"}] }

\* the edge tuples of a fixture, by name, with property maps from ps
Edges(f, ps) ==
    {<<pr[1], pr[2], r, p>> : pr \in f.pairs, r \in f.rels, p \in ps}
\* the same without a property map
Edges3(f) == {<<pr[1], pr[2], r>> : pr \in f.pairs, r \in f.rels}

\* lists of length lo..hi over a set
Lists(S, lo, hi) == UNION {[1..n -> S] : n \in lo..hi}

\* the argument values the fixtures give each method
NodeLists == UNION {Lists(f.ids \X f.nprops, 0, MaxBatch) : f \in Fixtures}
EdgeArgs  == UNION {Edges(f, f.eprops) : f \in Fixtures}
EdgeLists ==
    UNION {Lists(Edges(f, f.eprops), 0, MaxBatch) : f \in Fixtures}

\* the edge tuple (source_id, target_id, relationship_name[, properties])
\* and the node tuple (node_id, properties) a tuple of names stands for
EdgeOf(e) ==
    IF e[4] = "-" THEN <<Text[e[1]], Text[e[2]], Text[e[3]]>>
    ELSE <<Text[e[1]], Text[e[2]], Text[e[3]], PropsOf(e[4])>>
NodeOf(nd) == <<Text[nd[1]], PropsOf(nd[2])>>

\* A table over a finite argument set, held as an explicit function so that
\* each entry is computed once.
Table(f) == f @@ <<>>

(***************************************************************************)
(* Write operations.  Each posts one update; *Update is what the endpoint  *)
(* reads in the text the method sends: ok (well formed) and the triples of *)
(* its INSERT DATA block.                                                  *)
(***************************************************************************)
\* the method returned, or raised e, without a request to the endpoint
Wrote(S)      == [outcome |-> "ok", store |-> S, status |-> "none"]
Failed(e, S)  == [outcome |-> e, store |-> S, status |-> "none"]

\* What the update endpoint does with a request: 400 for a malformed
\* update, 500 when it cannot serve it (up is false), else the update is
\* applied, S becoming T, and the answer is 204.
Answer(ok, up, S, T) ==
    IF ~ok THEN [status |-> "400", store |-> S]
    ELSE IF ~up THEN [status |-> "500", store |-> S]
    ELSE [status |-> "204", store |-> T]

\* a method that ignored the status of the response
status_ignored(r) ==
    [outcome |-> "ok", store |-> r.store, status |-> r.status]

\* response.raise_for_status(): HTTPError for a 4xx or 5xx status
raise_for_status(r) ==
    [outcome |-> IF r.status \in {"400", "500"} THEN "HTTPError" ELSE "ok",
     store |-> r.store, status |-> r.status]

NoUpdate == [sent |-> FALSE, ok |-> TRUE, triples |-> {}]

\* query = self._construct_insert_query(triples) as the endpoint reads it
Update(parsed) ==
    [sent |-> TRUE, ok |-> InsertOk(parsed), triples |-> InsertedTriples(parsed)]
InsertUpdate(triples) == Update(ParseInsert(_construct_insert_query(triples)))

\* requests.post(self.update_endpoint, ...); response.raise_for_status()
Post(S, u, up) ==
    IF ~u.sent THEN Wrote(S)
    ELSE raise_for_status(Answer(u.ok, up, S, S \cup u.triples))

\* the (node_id, key, literal) tuples of one node, None values skipped
NodeTriples(node_id, properties) ==
    LET NotNone(kv) == kv[2].ty # "none"
        kept == SelectSeq(properties, NotNone)
    IN  [i \in 1..Len(kept) |-> <<node_id, kept[i][1], _format_literal(kept[i][2])>>]

\* add_node(node, properties): `triples` is never bound in this method, so
\* its first use raises NameError before any request is made
add_node(S, nd) == Failed("NameError", S)

\* add_nodes(nodes), nodes a list of (node_id, properties): one INSERT DATA
\* with the tuples of all nodes, no request when there is none
AddNodesUpdate(nodes) ==
    LET triples == Concat([i \in 1..Len(nodes) |->
                              NodeTriples(nodes[i][1], nodes[i][2])])
    IN  IF triples = <<>> THEN NoUpdate ELSE InsertUpdate(triples)

add_nodes_update ==
    Table([nodes \in NodeLists |->
              AddNodesUpdate([i \in 1..Len(nodes) |-> NodeOf(nodes[i])])])

add_nodes(S, nodes, up) == Post(S, add_nodes_update[nodes], up)

\* the tuples add_edge / add_edges build for one edge: the base triple, then
\* one reified property triple per property
EdgeTriples(source_id, target_id, relationship_name, properties) ==
    LET source_uri == to_uri(source_id, UrnNode)
        target_uri == to_uri(target_id, UrnNode)
        rel_uri    == to_uri(relationship_name, UrnRelationship)
        serialized_properties == serialize_properties(properties)
    IN  << <<source_uri, rel_uri, target_uri>> >> \o
        [i \in 1..Len(serialized_properties) |->
            <<RelId(source_uri, rel_uri, target_uri),
              serialized_properties[i][1],
              _format_literal(serialized_properties[i][2])>>]

\* add_edge(source_id, target_id, relationship_name, properties)
AddEdgeUpdate(edge) == InsertUpdate(EdgeTriples(edge[1], edge[2], edge[3], edge[4]))

add_edge_update == Table([e \in EdgeArgs |-> AddEdgeUpdate(EdgeOf(e))])

add_edge(S, e, up) == Post(S, add_edge_update[e], up)

\* add_edges(edges): `triples` is assigned anew in every iteration, so the
\* request carries the tuples of the last edge only
AddEdgesUpdate(edges) ==
    IF edges = <<>> THEN NoUpdate ELSE AddEdgeUpdate(edges[Len(edges)])

add_edges_update ==
    Table([edges \in EdgeLists |->
              AddEdgesUpdate([i \in 1..Len(edges) |-> EdgeOf(edges[i])])])

add_edges(S, edges, up) == Post(S, add_edges_update[edges], up)

\* delete_node(node_id)
delete_node(S, id, up) ==
    raise_for_status(Answer(StringLiteralOk(Text[id]), up, S,
                            StoreAfterDelete(S, {Text[id]})))

\* delete_nodes(node_ids): no request for an empty list, else one DELETE
\* whose filter is the disjunction over the ids
delete_nodes(S, node_ids, up) ==
    IF node_ids = <<>> THEN Wrote(S)
    ELSE raise_for_status(
            Answer(\A i \in 1..Len(node_ids) : StringLiteralOk(Text[node_ids[i]]),
                   up, S,
                   StoreAfterDelete(S, {Text[node_ids[i]] : i \in 1..Len(node_ids)})))

\* delete_graph(): CLEAR ALL
delete_graph(S, up) == raise_for_status(Answer(TRUE, up, S, {}))

(***************************************************************************)
(* State                                                                   *)
(***************************************************************************)
VARIABLES
    fx,       \* the fixture: the names the calls draw their arguments from
    store,    \* the statements held by the remote repository
    method,   \* self.sparql's HTTP method (SPARQLWrapper.setMethod)
    op,       \* the method called last
    args,     \* its arguments, by name
    outcome,  \* of a write: "ok" when it returned, else the exception it
              \* raised; "read" after a read, whose result is Result below
    status,   \* the status the update endpoint answered the last call with,
              \* "none" when the call posted no update
    sent      \* whether the last call sent any request to the endpoint

vars == <<fx, store, method, op, args, outcome, status, sent>>

Init ==
    /\ fx \in Fixtures
    /\ store = {}
    /\ method = "GET"
    /\ op = "__init__"
    /\ args = <<>>
    /\ outcome = "ok"
    /\ status = "none"
    /\ sent = FALSE

\* a write method has run: w = [outcome, store, status]
Write(name, a, w) ==
    /\ Cardinality(w.store) <= MaxTriples
    /\ store' = w.store
    /\ op' = name
    /\ args' = a
    /\ outcome' = w.outcome
    /\ status' = w.status
    /\ sent' = (w.status # "none")
    /\ UNCHANGED <<fx, method>>

\* a read method has run; m is the HTTP method the wrapper is left with, q
\* whether the method sent a query
Read(name, a, m, q) ==
    /\ op' = name
    /\ args' = a
    /\ outcome' = "read"
    /\ status' = "none"
    /\ sent' = q
    /\ method' = m
    /\ UNCHANGED <<fx, store>>

AddNode ==
    \E nd \in fx.ids \X fx.nprops :
        Write("add_node", nd, add_node(store, nd))

AddNodes ==
    \E nodes \in Lists(fx.ids \X fx.nprops, 0, MaxBatch), up \in BOOLEAN :
        Write("add_nodes", nodes, add_nodes(store, nodes, up))

AddEdge ==
    \E e \in Edges(fx, fx.eprops), up \in BOOLEAN :
        Write("add_edge", e, add_edge(store, e, up))

AddEdges ==
    \E edges \in Lists(Edges(fx, fx.eprops), 0, MaxBatch), up \in BOOLEAN :
        Write("add_edges", edges, add_edges(store, edges, up))

DeleteNode ==
    \E id \in fx.ids, up \in BOOLEAN :
        Write("delete_node", <<id>>, delete_node(store, id, up))

DeleteNodes ==
    \E node_ids \in Lists(fx.ids, 0, MaxBatch), up \in BOOLEAN :
        Write("delete_nodes", node_ids, delete_nodes(store, node_ids, up))

DeleteGraph ==
    \E up \in BOOLEAN : Write("delete_graph", <<>>, delete_graph(store, up))

HasEdge ==
    \E e \in Edges3(fx) :
        Read("has_edge", e, method, TRUE)

HasEdges ==
    \E edges \in Lists(Edges(fx, fx.hprops), 0, MaxBatch) :
        Read("has_edges", edges, IF edges = <<>> THEN method ELSE "POST",
             edges # <<>>)

GetNode ==
    \E id \in fx.ids : Read("get_node", <<id>>, method, TRUE)

GetNodes ==
    \E node_ids \in Lists(fx.ids, 0, MaxBatch) :
        Read("get_nodes", node_ids, IF node_ids = <<>> THEN method ELSE "POST",
             node_ids # <<>>)

ExtractNodes ==
    \E node_ids \in Lists(fx.ids, 0, MaxBatch) :
        Read("extract_nodes", node_ids,
             IF node_ids = <<>> THEN method ELSE "POST", node_ids # <<>>)

GetGraphData == Read("get_graph_data", <<>>, "POST", TRUE)

GetGraphMetrics == Read("get_graph_metrics", <<>>, method, TRUE)

GetNodesetSubgraph ==
    \E node_name \in Lists(fx.ids, 0, MaxBatch) :
        Read("get_nodeset_subgraph", node_name, "POST", TRUE)

GetNeighbors ==
    \E id \in fx.ids : Read("get_neighbors", <<id>>, method, TRUE)

GetConnections ==
    \E id \in fx.ids : Read("get_connections", <<id>>, method, TRUE)

Next ==
    \/ AddNode
    \/ AddNodes
    \/ AddEdge
    \/ AddEdges
    \/ DeleteNode
    \/ DeleteNodes
    \/ DeleteGraph
    \/ HasEdge
    \/ HasEdges
    \/ GetNode
    \/ GetNodes
    \/ ExtractNodes
    \/ GetGraphData
    \/ GetGraphMetrics
    \/ GetNodesetSubgraph
    \/ GetNeighbors
    \/ GetConnections

Spec == Init /\ [][Next]_vars

\* what the read called last hands back: [outcome, value].  sigma is the
\* order in which the endpoint enumerates the store for this call, bindings
\* whether a CONSTRUCT answer has result bindings.
Result(sigma, bindings) ==
    CASE op = "has_edge" ->
            Returned(has_edge(store, Text[args[1]], Text[args[2]], Text[args[3]]))
      [] op = "has_edges" ->
            has_edges(sigma, [i \in 1..Len(args) |-> EdgeOf(args[i])])
      [] op = "get_node" -> get_node(sigma, Text[args[1]])
      [] op = "get_nodes" ->
            get_nodes(sigma, [i \in 1..Len(args) |-> Text[args[i]]])
      [] op = "extract_nodes" ->
            extract_nodes(sigma, [i \in 1..Len(args) |-> Text[args[i]]])
      [] op = "get_graph_data" -> get_graph_data(sigma)
      [] op = "get_graph_metrics" -> get_graph_metrics(store)
      [] op = "get_nodeset_subgraph" ->
            get_nodeset_subgraph(sigma, [i \in 1..Len(args) |-> Text[args[i]]],
                                 bindings)
      [] op = "get_neighbors" -> get_neighbors(sigma, Text[args[1]])
      [] op = "get_connections" -> get_connections(sigma, Text[args[1]])

(***************************************************************************)
(* Properties                                                              *)
(***************************************************************************)
Range(s) == {s[i] : i \in 1..Len(s)}

\* the keys of a Python dict given as a sequence of (key, value) pairs
Keys(properties) == {properties[i][1] : i \in 1..Len(properties)}

\* the IRI under which add_edge and add_nodes store the node with this id
StoredNode(id) == Iri(to_uri(Text[id], UrnNode))

\* C1: has_edge(src, dst, rel) returns true immediately after a successful
\* add_edge(src, dst, rel, properties) on the same store, whatever
\* characters the ids and the relationship name contain.
C1_HasEdgeAfterAddEdge ==
    (op = "add_edge" /\ outcome = "ok") =>
        has_edge(store, Text[args[1]], Text[args[2]], Text[args[3]])

\* C2: add_node(id, properties) completes, and a following get_node(id)
\* returns a property map with the keys of properties, each mapped to the
\* literal text of its value.
C2_AddNodeThenGetNode ==
    op = "add_node" =>
        /\ outcome = "ok"
        /\ \A sigma \in Orders(store) :
              LET r == get_node(sigma, Text[args[1]])
                  properties == PropsOf(args[2])
              IN  /\ r.outcome = "ok"
                  /\ ~IsNone(r)
                  /\ DOMAIN r.value = Keys(properties)
                  /\ \A i \in 1..Len(properties) :
                        r.value[properties[i][1]] = PyStr(properties[i][2])

\* C3: delete_node(x) removes only statements whose subject or object is
\* the node with id exactly x; every other statement of the store (those of
\* a node "alpha" when x = "a") is still there afterwards.
C3_DeleteNodeRemovesOnlyThatNode ==
    [][(op' = "delete_node" /\ outcome' = "ok") =>
          \A t \in store :
              (t.s # StoredNode(args'[1]) /\ t.o # StoredNode(args'[1]))
                  => t \in store']_vars

\* C4: after add_edge(src, dst, rel, props) with a non-empty property map,
\* get_graph_data() returns an edge tuple for (src, dst, rel) whose property
\* map has every key of props, mapped to the literal text of its value.
C4_EdgePropertiesRoundTrip ==
    (op = "add_edge" /\ outcome = "ok" /\ PropsOf(args[4]) # <<>>) =>
        \A sigma \in Orders(store) :
            LET r == get_graph_data(sigma)
                properties == PropsOf(args[4])
            IN  /\ r.outcome = "ok"
                /\ \E i \in 1..Len(r.value.edges) :
                      LET edge == r.value.edges[i]
                      IN  /\ edge[1] = Text[args[1]]
                          /\ edge[2] = Text[args[2]]
                          /\ edge[3] = Text[args[3]]
                          /\ \A j \in 1..Len(properties) :
                                /\ properties[j][1] \in DOMAIN edge[4]
                                /\ edge[4][properties[j][1]] = PyStr(properties[j][2])

\* C5: when the store holds one edge a -rel-> b created through add_edge,
\* get_nodeset_subgraph(_, [a, b]) returns the two nodes with ids 0 and 1 in
\* first-seen order and exactly the edge (0, 1, rel, {}).  (Stated for an
\* answer that has result bindings, the case in which the method can return.)
C5_SubgraphOfOneEdge ==
    (/\ op = "add_edge" /\ outcome = "ok"
     /\ args[1] # args[2]
     /\ PropsOf(args[4]) = <<>>
     /\ store = add_edge_update[args].triples) =>
        \A sigma \in Orders(store) :
            get_nodeset_subgraph(sigma, <<Text[args[1]], Text[args[2]]>>, TRUE)
              = Returned([nodes |-> <<[id |-> 0, props |-> EmptyDict],
                                      [id |-> 1, props |-> EmptyDict]>>,
                          edges |-> << <<0, 1, Text[args[3]], EmptyDict>> >>])

\* the statements that join two nodes, and the nodes of a store: the IRIs
\* that are the subject of a statement or the target of an edge
EdgeStatements(S) == {t \in S : IsIri(t.s) /\ IsIri(t.o)}
NodesOf(S) == {t.s : t \in {u \in S : IsIri(u.s)}} \cup {t.o : t \in EdgeStatements(S)}

\* C6: get_graph_data() returns exactly one node entry per distinct node of
\* the store and exactly one edge tuple per relationship statement between
\* nodes; on an empty store it returns ([], []).  (Stated for the stores
\* that hold node and edge statements only, no edge property.)
C6_GraphDataCountsNodesAndEdges ==
    (op = "get_graph_data" /\ \A t \in store : IsIri(t.s)) =>
        \A sigma \in Orders(store) :
            LET r == get_graph_data(sigma)
            IN  /\ r.outcome = "ok"
                /\ Len(r.value.nodes) = Cardinality(NodesOf(store))
                /\ Len(r.value.edges) = Cardinality(EdgeStatements(store))

\* C7: after add_edge(src, dst, rel, ...) followed directly by delete_node(src)
\* or by delete_graph(), has_edge(src, dst, rel) returns false.
C7_NoEdgeAfterDelete ==
    [][(/\ op = "add_edge" /\ outcome = "ok" /\ outcome' = "ok"
        /\ \/ op' = "delete_graph"
           \/ op' = "delete_node" /\ args'[1] = args[1]) =>
          ~has_edge(store', Text[args[1]], Text[args[2]], Text[args[3]])]_vars

\* C8: has_edges(list) returns exactly the existing subset of its input: an
\* edge of the list is in the result if and only if has_edge is true for it
\* on the same store, and every returned element is an element of the list.
\* (An edge counts as in the result when an element with its source, target
\* and relationship name is.)
C8_HasEdgesIsExistingSubset ==
    op = "has_edges" =>
        \A sigma \in Orders(store) :
            LET edges == [i \in 1..Len(args) |-> EdgeOf(args[i])]
                r == has_edges(sigma, edges)
            IN  /\ r.outcome = "ok"
                /\ Range(r.value) \subseteq Range(edges)
                /\ \A i \in 1..Len(edges) :
                      (\E j \in 1..Len(r.value) :
                          SubSeq(r.value[j], 1, 3) = SubSeq(edges[i], 1, 3))
                        <=> has_edge(store, edges[i][1], edges[i][2], edges[i][3])

\* a node that was stored with properties
HasProperties(S, node) == \E t \in S : t.s = node /\ t.o.k = "lit"

\* the relationship statements in which the node with this id is the source
\* or the target, both ends stored with properties
RelationshipsOf(S, id) ==
    {t \in EdgeStatements(S) :
        /\ t.s = StoredNode(id) \/ t.o = StoredNode(id)
        /\ HasProperties(S, t.s) /\ HasProperties(S, t.o)}

\* C9: get_connections(id) returns one (source, relation, target) entry for
\* every relationship statement created through add_edge in which node id is
\* the source or the target.  (Counted over the relationships whose two
\* nodes were stored with properties, the ones the method can report.)
C9_ConnectionsCoverBothDirections ==
    (op = "get_connections" /\ RelationshipsOf(store, args[1]) # {}) =>
        \A sigma \in Orders(store) :
            LET r == get_connections(sigma, Text[args[1]])
            IN  /\ r.outcome = "ok"
                /\ Len(r.value) = Cardinality(RelationshipsOf(store, args[1]))

\* the nodes stored with properties that a relationship statement joins to
\* the node with this id, in either direction
NeighborsOf(S, id) ==
    {n \in NodesOf(S) :
        /\ HasProperties(S, n)
        /\ \E t \in EdgeStatements(S) :
              \/ t.s = StoredNode(id) /\ t.o = n
              \/ t.o = StoredNode(id) /\ t.s = n}

\* C10: get_neighbors(id) returns the property map of every node that was
\* stored with properties and is joined to node id by a relationship
\* statement in either direction.
C10_NeighborsInBothDirections ==
    (op = "get_neighbors" /\ NeighborsOf(store, args[1]) # {}) =>
        \A sigma \in Orders(store) :
            LET r == get_neighbors(sigma, Text[args[1]])
            IN  /\ r.outcome = "ok"
                /\ Len(r.value) = Cardinality(NeighborsOf(store, args[1]))

Writes ==
    {"add_node", "add_nodes", "add_edge", "add_edges",
     "delete_node", "delete_nodes", "delete_graph"}

\* C11: whenever the update endpoint answers a write operation with a
\* non-success status (4xx or 5xx), the operation raises an error to its
\* caller: it never returns normally, and the store is what the endpoint
\* left.
C11_FailedUpdateIsRaised ==
    (op \in Writes /\ status \in {"400", "500"}) => outcome = "HTTPError"

\* a delete_graph the endpoint refused, on a store that holds statements
C11_Witness ==
    /\ op = "delete_graph"
    /\ status = "500"
    /\ outcome = "HTTPError"
    /\ store # {}

ListReads == {"get_nodes", "has_edges", "extract_nodes", "get_nodeset_subgraph"}
ListWrites == {"delete_nodes", "add_nodes", "add_edges"}

\* C12: an operation that takes a list of ids or edges, called with an empty
\* list, sends no request to the endpoint and returns an empty result (a
\* write returns normally and leaves the store as it was).
C12_EmptyListMakesNoCall ==
    /\ (op \in ListWrites /\ args = <<>>) => (~sent /\ outcome = "ok")
    /\ (op \in ListReads /\ args = <<>>) =>
          /\ ~sent
          /\ \A sigma \in Orders(store) :
                LET r == Result(sigma, TRUE)
                IN  /\ r.outcome = "ok"
                    /\ r.value = IF op = "get_nodeset_subgraph"
                                 THEN [nodes |-> <<>>, edges |-> <<>>]
                                 ELSE <<>>

\* an id or relationship name that urllib.parse.quote leaves as it is and
\* that is no IRI by itself: add_edge and has_edge build the same IRI for it
PlainName(n) == to_quoted_uri(Text[n]) = Text[n] /\ ~is_uri(Text[n])

\* C13: after add_edges(list) has returned, has_edge(src, dst, rel) is true
\* for every (src, dst, rel, props) of the list (whose names has_edge and
\* add_edges write alike), not only for the last one.
C13_AddEdgesStoresEveryEdge ==
    (op = "add_edges" /\ outcome = "ok") =>
        \A i \in 1..Len(args) :
            (PlainName(args[i][1]) /\ PlainName(args[i][2]) /\ PlainName(args[i][3]))
            => has_edge(store, Text[args[i][1]], Text[args[i][2]], Text[args[i][3]])

\* C14: whenever a reified property statement << src rel dst >> key value is
\* in the store, the base statement src rel dst is in the store too.
C14_EdgePropertiesOnlyWithBaseTriple ==
    \A t \in store :
        t.s.k = "triple" =>
            \E b \in store :
                /\ IsIri(b.s) /\ IsIri(b.o)
                /\ t.s = Quoted(RelId(b.s.v, b.p, b.o.v))

\* the property keys the node with this id was stored with
PropertyKeysOf(S, id) ==
    {SplitIndex1(t.p, UrnProperty) :
        t \in {u \in S : u.s = StoredNode(id) /\ u.o.k = "lit"}}

\* C15: get_node(id) and get_nodes(ids) do not fail on a returned statement
\* that is no node property (an outgoing relationship of the node, a
\* statement of a node that was not asked for): for a node stored with
\* properties they return normally, get_node with a map that has the node's
\* property keys.  (get_nodes is taken on stores whose subjects are all
\* IRIs with urn:node: in them.)
C15_NodeReadsSkipOtherTriples ==
    /\ (op = "get_node" /\ HasProperties(store, StoredNode(args[1]))) =>
          \A sigma \in Orders(store) :
              LET r == Result(sigma, TRUE)
              IN  /\ r.outcome = "ok"
                  /\ ~IsNone(r)
                  /\ PropertyKeysOf(store, args[1]) \subseteq DOMAIN r.value
    /\ (/\ op = "get_nodes"
        /\ RegexOk([i \in 1..Len(args) |-> Text[args[i]]])
        /\ \A t \in store : IsIri(t.s) => HasIndex1(t.s.v, UrnNode)
        /\ \E i \in 1..Len(args) : HasProperties(store, StoredNode(args[i]))) =>
          \A sigma \in Orders(store) : Result(sigma, TRUE).outcome = "ok"

\* the edge tuples a result of get_graph_data has for the statement t
EdgesFor(edges, t) ==
    {i \in 1..Len(edges) :
        /\ edges[i][1] = uri_to_key(t.s.v)
        /\ edges[i][3] = uri_to_key(t.p)
        /\ edges[i][2] \in {uri_to_key(t.o.v), AfterLast(t.o.v, UrnNode)}}

\* C16: in get_graph_data a statement whose predicate is outside the
\* urn:property: namespace is classified by its own object alone: with an IRI
\* as object it is reported as an edge, whatever other statements are in the
\* result and in whatever order the bindings come.  (Stated for the stores
\* that hold no edge property.)
C16_ClassifiedByOwnObject ==
    (op = "get_graph_data" /\ \A t \in store : IsIri(t.s)) =>
        \A sigma \in Orders(store) :
            LET r == Result(sigma, TRUE)
            IN  \A t \in store :
                    (~Contains(t.p, UrnProperty) /\ IsIri(t.o)) =>
                        EdgesFor(r.value.edges, t) # {}

\* the reads that never call self.sparql.setMethod
ReadsWithoutSetMethod ==
    {"has_edge", "get_node", "get_neighbors", "get_connections",
     "get_graph_metrics"}

\* C17: no call leaves client state that changes how a later call is sent:
\* a read that does not choose the HTTP method itself is sent with the
\* method of a newly made adapter, GET, whatever was called before it.
C17_NoClientStateBetweenCalls ==
    op \in ReadsWithoutSetMethod => method = "GET"

\* C18: get_graph_metrics() agrees with get_graph_data() on the same store:
\* node_count is the number of returned nodes and edge_count the number of
\* returned edges.
C18_MetricsAgreeWithGraphData ==
    op = "get_graph_metrics" =>
        \A sigma \in Orders(store) :
            LET m == get_graph_metrics(store).value
                g == get_graph_data(sigma).value
            IN  /\ m.node_count = Len(g.nodes)
                /\ m.edge_count = Len(g.edges)

\* C19: in every result of get_graph_data() each edge is between two entries
\* of the returned node list, and its source id and target id are the ids
\* the two nodes were added with, upper-case letters included.  (Stated for
\* the stores whose nodes are all IRIs with urn:node: in them and that hold
\* no edge property.)
C19_EdgeEndsAreReturnedNodes ==
    (/\ op = "get_graph_data"
     /\ \A t \in store : IsIri(t.s) /\ HasIndex1(t.s.v, UrnNode)
     /\ \A t \in EdgeStatements(store) : HasIndex1(t.o.v, UrnNode)) =>
        \A sigma \in Orders(store) :
            LET g   == Result(sigma, TRUE).value
                ids == {g.nodes[i].id : i \in 1..Len(g.nodes)}
            IN  \A i \in 1..Len(g.edges) :
                    /\ g.edges[i][1] \in ids
                    /\ g.edges[i][2] \in ids
                    /\ \E src, dst \in fx.ids :
                          /\ g.edges[i][1] = Text[src]
                          /\ g.edges[i][2] = Text[dst]
                          /\ \E t \in EdgeStatements(store) :
                                t.s = StoredNode(src) /\ t.o = StoredNode(dst)

====
